---- MODULE Spec2Model ----
(***************************************************************************)
(* Model of the single-header arena allocator (arena_allocator.h).        *)
(* Every mmap'd Region is identified by the order of its mapping (1, 2,   *)
(* ...); `regions` holds the header of every mapping ever made, the chain *)
(* is the list reachable from `head` through `next` (0 stands for NULL).  *)
(* An address is a pair <<region id, offset into its usable bytes>>.      *)
(***************************************************************************)
EXTENDS Integers, Naturals, Sequences, FiniteSets, TLC

\* Platform constants (x86-64 Linux: 4096-byte pages, 40-byte Region header)
PageSize == 4096
HeaderSize == 40
DefaultCapacity == PageSize * 2

\* Bounds of the exploration
MaxOps == 6
MaxOpsApi == 4
MaxOpsHeap == 5
WriteSpan == 1

\* Inputs: requested sizes of arena_init and of arena_alloc / arena_realloc.
\* 8160 and 8168 are served by an 8152-byte appended region (8 and 16 bytes
\* short); 12248 is the capacity init(8192) gives.
InitSizes == {1, 8192}
AllocSizes == {50, 100, 4056, 8160, 8168, 12248}
\* Smaller input sets for the behaviours with caller writes
InitSizesData == {1}
AllocSizesData == {50, 100, 4056, 8160}
Vals == {1}

VARIABLES regions,   \* mapping id -> Region header [next, capacity, count, remaining] + mapping length buf
          head,      \* Arena.head (0 = NULL)
          tail,      \* Arena.tail (0 = NULL)
          unmaps,    \* mapping id -> number of munmap calls on it
          views,     \* views [rid, off, len] handed out since the last init/reset/destroy
          mem,       \* sparse byte contents: address -> non-zero byte value
          last,      \* record of the last operation and its observable result
          allocSum,  \* sum of the sizes of alloc calls since the last init
          destroys,  \* destroy calls since the last init
          aborted,   \* the process stopped: failed assert(), segfault or endless loop
          ops,       \* number of operations performed
          limit,     \* exploration bound on ops (fixed by the initial state)
          inSizes,   \* sizes init is called with (fixed by the initial state)
          alSizes,   \* sizes alloc / realloc are called with (fixed by the initial state)
          initCap,   \* capacity the initial region was created with by the last init
          since      \* operations <<op, size>> since the last init, while they
                     \* are a prefix of C9_Scenario (<<>> once they diverge)

vars == <<regions, head, tail, unmaps, views, mem, last, allocSum, destroys, aborted, ops, limit, inSizes, alSizes, initCap, since>>

\* The example scenario of the spec: init(1); alloc(100); alloc(50)
C9_Scenario == <<<<"init", 1>>, <<"alloc", 100>>, <<"alloc", 50>>>>

\* Records an operation in `since`
Log(sq, op, size) ==
    LET n == Append(sq, <<op, size>>) IN
    IF Len(n) <= Len(C9_Scenario) /\ n = SubSeq(C9_Scenario, 1, Len(n)) THEN n ELSE <<>>

NMaps == Cardinality(DOMAIN regions)

Read(m, a) == IF a \in DOMAIN m THEN m[a] ELSE 0

Min(a, b) == IF a < b THEN a ELSE b

\* arena__align__size: header + size rounded up to a multiple of the page size
arena__align__size(size) ==
    ((HeaderSize + size + PageSize - 1) \div PageSize) * PageSize

\* (variant) a region whose capacity does not exclude the header
arena__new__region_NoHeader(size) ==
    [next |-> 0, capacity |-> size, count |-> 0, remaining |-> size,
     buf |-> size - HeaderSize]

\* arena__new__region: header fields of a fresh mapping of `size` bytes;
\* `buf` is not a header field but the length of the usable bytes the
\* mapping really has (header writes past a buffer can change capacity)
arena__new__region(size) ==
    [next |-> 0, capacity |-> size - HeaderSize,
     count |-> 0, remaining |-> size - HeaderSize, buf |-> size - HeaderSize]

\* Mapping size chosen by arena__append__region
AppendMapSize(size) ==
    IF size < DefaultCapacity THEN DefaultCapacity ELSE arena__align__size(size)

\* The distinct region ids met when following next from r (stops at NULL or
\* at the first region met again, i.e. a corrupted, cyclic chain)
RECURSIVE ChainFromV(_, _, _)
ChainFromV(rs, r, seen) ==
    IF r = 0 \/ r \in seen THEN <<>>
    ELSE <<r>> \o ChainFromV(rs, rs[r].next, seen \cup {r})

ChainFrom(rs, r) == ChainFromV(rs, r, {})

\* The walk `for(curr = h; curr != NULL; curr = curr->next)` never ends
Cyclic(rs, h) ==
    LET ch == ChainFrom(rs, h) IN Len(ch) > 0 /\ rs[ch[Len(ch)]].next # 0

Chain == ChainFrom(regions, head)

\* (variant) the search test written as size < remaining
RECURSIVE FirstFitFrom_Strict(_, _, _, _)
FirstFitFrom_Strict(rs, r, size, seen) ==
    IF r = 0 \/ r \in seen THEN 0
    ELSE IF size < rs[r].remaining THEN r
    ELSE FirstFitFrom_Strict(rs, rs[r].next, size, seen \cup {r})

\* The for-loop of arena_alloc: first region in chain order with
\* size <= remaining (0 when none; on a cyclic chain the loop then never ends)
RECURSIVE FirstFitFrom(_, _, _, _)
FirstFitFrom(rs, r, size, seen) ==
    IF r = 0 \/ r \in seen THEN 0
    ELSE IF size <= rs[r].remaining THEN r
    ELSE FirstFitFrom(rs, rs[r].next, size, seen \cup {r})

FirstFit(size) == FirstFitFrom(regions, head, size, {})

\* arena_alloc does not return: no region fits and the chain is cyclic
AllocHangs(size) == FirstFit(size) = 0 /\ Cyclic(regions, head)

\* arena_alloc (arena initialised): the resulting heap, tail and returned address
arena_alloc(size) ==
    LET c == FirstFit(size) IN
    IF c # 0 THEN
        [regions |-> [regions EXCEPT ![c].count = @ + size,
                                     ![c].remaining = @ - size],
         tail |-> tail,
         ptr |-> <<c, regions[c].count>>,
         appended |-> FALSE]
    ELSE
        \* arena__append__region followed by ptr = tail->bytes + tail->count
        LET id == NMaps + 1
            nr == arena__new__region(AppendMapSize(size))
            rs == [i \in 1..id |-> IF i = id THEN nr
                                   ELSE IF i = tail THEN [regions[i] EXCEPT !.next = id]
                                   ELSE regions[i]]
        IN [regions |-> rs,
            tail |-> id,
            ptr |-> <<id, rs[id].count>>,
            appended |-> TRUE]

NoLast == [op |-> "none", size |-> 0, served |-> 0, appended |-> FALSE,
           afterReset |-> FALSE, p |-> <<0, 0>>, ret |-> <<0, 0>>, copyOk |-> TRUE]

\* The zeroed Arena (Arena arena = {0}), no mapping made yet
InitWith(bound, isz, asz) ==
    /\ regions = <<>>
    /\ head = 0
    /\ tail = 0
    /\ unmaps = <<>>
    /\ views = {}
    /\ mem = <<>>
    /\ last = NoLast
    /\ allocSum = 0
    /\ destroys = 0
    /\ aborted = FALSE
    /\ ops = 0
    /\ limit = bound
    /\ inSizes = isz
    /\ alSizes = asz
    /\ initCap = 0
    /\ since = <<>>

Init == InitWith(MaxOps, InitSizesData, AllocSizesData)

\* arena_init(arena, s): no check on the arena; on a live arena the old
\* chain is dropped without being unmapped (leaked)
InitArena ==
    /\ ~aborted /\ ops < limit
    /\ \E s \in inSizes :
        LET id == NMaps + 1 IN
        /\ regions' = [i \in 1..id |-> IF i = id
                                       THEN arena__new__region(arena__align__size(s))
                                       ELSE regions[i]]
        /\ unmaps' = [i \in 1..id |-> IF i = id THEN 0 ELSE unmaps[i]]
        /\ head' = id
        /\ tail' = id
        /\ views' = {}
        /\ last' = [NoLast EXCEPT !.op = "init", !.size = s]
        /\ allocSum' = 0
        /\ destroys' = 0
        /\ ops' = ops + 1
        /\ initCap' = arena__align__size(s) - HeaderSize
        /\ since' = Log(<<>>, "init", s)
        /\ UNCHANGED <<limit, inSizes, alSizes, mem, aborted>>

\* Adds a view returned by arena_alloc to the set of live views
ViewOf(a, size) == [rid |-> a[1], off |-> a[2], len |-> size]

\* arena_alloc(arena, s): assert(head != NULL), then first fit or append
Alloc ==
    /\ ~aborted /\ ops < limit
    /\ \E s \in alSizes :
        IF head = 0 THEN
            /\ aborted' = TRUE
            /\ last' = [NoLast EXCEPT !.op = "abort", !.size = s]
            /\ ops' = ops + 1
            /\ UNCHANGED <<limit, inSizes, alSizes, initCap, regions, head, tail, unmaps, views, mem, allocSum, destroys, since>>
        ELSE IF AllocHangs(s) THEN
            /\ aborted' = TRUE
            /\ last' = [NoLast EXCEPT !.op = "hang", !.size = s]
            /\ ops' = ops + 1
            /\ UNCHANGED <<limit, inSizes, alSizes, initCap, regions, head, tail, unmaps, views, mem, allocSum, destroys, since>>
        ELSE
            LET r == arena_alloc(s) IN
            /\ regions' = r.regions
            /\ tail' = r.tail
            /\ unmaps' = [i \in DOMAIN r.regions |->
                              IF i \in DOMAIN unmaps THEN unmaps[i] ELSE 0]
            /\ views' = views \cup {ViewOf(r.ptr, s)}
            /\ last' = [NoLast EXCEPT !.op = "alloc", !.size = s,
                          !.served = r.ptr[1], !.appended = r.appended,
                          !.afterReset = (last.op = "reset"), !.ret = r.ptr]
            /\ allocSum' = allocSum + s
            /\ ops' = ops + 1
            /\ since' = Log(since, "alloc", s)
            /\ UNCHANGED <<limit, inSizes, alSizes, initCap, head, mem, destroys, aborted>>

\* The value read from a byte past the usable buffer of its region: a byte
\* of another mapping (with the inputs used here, of a region header), which
\* is never a value the caller stored (those are in Vals)
ForeignByte == 256

\* Byte at address a as the copy loop reads it from the source
SrcByte(m, rs, a) ==
    IF a[2] >= rs[a[1]].buf THEN ForeignByte ELSE Read(m, a)

\* The byte-by-byte forward copy loop of arena_realloc,
\*     for(i = 0; i < n; ++i) dst[i] = src[i];
\* in closed form. When dst lies inside (src, src + n) of the same region,
\* a byte read at index i was written at index i - d (d = dst - src) and the
\* loop replicates src[0 .. d-1] periodically; otherwise dst[i] = src[i].
CopySmear(src, dst, n) ==
    src[1] = dst[1] /\ 0 < dst[2] - src[2] /\ dst[2] - src[2] < n

CopySrcVal(m, rs, src, dst, n, i) ==
    IF CopySmear(src, dst, n)
    THEN SrcByte(m, rs, <<src[1], src[2] + (i % (dst[2] - src[2]))>>)
    ELSE SrcByte(m, rs, <<src[1], src[2] + i>>)

\* Offsets i in 0..k-1 such that src[i] is non-zero in m
NonZeroOffsets(m, src, k) ==
    {a[2] - src[2] : a \in {a \in DOMAIN m : a[1] = src[1] /\ src[2] <= a[2]
                                             /\ a[2] < src[2] + k /\ m[a] # 0}}

\* Offsets i in 0..k-1 such that src[i] lies past its region's usable buffer
ForeignOffsets(rs, src, k) ==
    LET first == rs[src[1]].buf - src[2] IN
    IF first < 0 THEN 0..(k - 1) ELSE first..(k - 1)

\* Offsets i in 0..k-1 such that the byte read at src[i] is non-zero
ReadNonZero(m, rs, src, k) == NonZeroOffsets(m, src, k) \cup ForeignOffsets(rs, src, k)

\* Offsets i in 0..n-1 where dst[i] is non-zero after the loop
CopyNonZero(m, rs, src, dst, n) ==
    IF CopySmear(src, dst, n)
    THEN LET d == dst[2] - src[2] IN
         {i \in {j + k * d : j \in ReadNonZero(m, rs, src, d), k \in 0..((n - 1) \div d)} : i < n}
    ELSE ReadNonZero(m, rs, src, n)

InDst(a, dst, n) == a[1] = dst[1] /\ dst[2] <= a[2] /\ a[2] < dst[2] + n

\* Memory after the loop, bytes written past a buffer's end included
CopyBytes(m, rs, src, dst, n) ==
    LET dom == {a \in DOMAIN m : ~InDst(a, dst, n)}
               \cup {<<dst[1], dst[2] + i>> : i \in CopyNonZero(m, rs, src, dst, n)}
    IN [a \in dom |-> IF InDst(a, dst, n)
                      THEN CopySrcVal(m, rs, src, dst, n, a[2] - dst[2])
                      ELSE m[a]]

\* The first n bytes read at dst in m2 equal the first n bytes read at src
\* in m1 (m2 keeps the bytes written past dst's buffer: reading them back
\* reads the memory they were written to)
SameBytes(m1, rs, src, m2, dst, n) ==
    \A i \in ReadNonZero(m1, rs, src, n) \cup NonZeroOffsets(m2, dst, n) :
        Read(m2, <<dst[1], dst[2] + i>>) = SrcByte(m1, rs, <<src[1], src[2] + i>>)

\* (variant) arena_realloc without the early return for new_size < old_size
arena_realloc_NoEarlyReturn(p, oldsz, newsz) == arena_alloc(newsz)

\* arena_realloc without its copy loop: early return of old_ptr when
\* new_size < old_size, otherwise arena_alloc(arena, new_size)
arena_realloc(p, oldsz, newsz) ==
    IF newsz < oldsz
    THEN [regions |-> regions, tail |-> tail, ptr |-> p, appended |-> FALSE]
    ELSE arena_alloc(newsz)

\* Region ids whose mapping is still in place
LiveIds(rs, u) == {i \in DOMAIN rs : i \notin DOMAIN u \/ u[i] = 0}

\* The copy loop of arena_realloc reads or writes past the usable bytes of a
\* region (the view is longer than its region: see arena__append__region)
CopyOutOfBounds(rs, src, dst, n) ==
    n > rs[src[1]].buf - src[2] \/ n > rs[dst[1]].buf - dst[2]

\* Bytes the copy writes past the end of the destination's usable bytes
DstOverflow(rs, dst, n) == n - (rs[dst[1]].buf - dst[2])

\* Region headers that an overflow of k bytes can leave in header h. The
\* header fields are 8 bytes each, in the order next, capacity, count,
\* remaining, bytes, and every field the overflow reaches receives 8 copied
\* source bytes. With the inputs used here the overflow is 8 or 16 bytes
\* and starts 8-aligned on both sides, and the source words copied are
\* either inside a buffer (zero, or a header word an earlier out-of-bounds
\* copy left there: no caller data reaches these offsets) or past the
\* source's buffer, i.e. a word of the header mapped after it. So a reached
\* field becomes 0, keeps its old value, or takes the value that same field
\* has in some mapped region's header (next: NULL or a mapped region).
CorruptedHeaders(h, k, rs, live) ==
    {[h EXCEPT !.next = nx, !.capacity = c, !.count = ct, !.remaining = rm] :
        nx \in IF k > 0 THEN {0} \cup live ELSE {h.next},
        c \in IF k > 8 THEN {h.capacity, 0} \cup {rs[i].capacity : i \in live} ELSE {h.capacity},
        ct \in IF k > 16 THEN {h.count, 0} \cup {rs[i].count : i \in live} ELSE {h.count},
        rm \in IF k > 24 THEN {h.remaining, 0} \cup {rs[i].remaining : i \in live} ELSE {h.remaining}}

\* Bytes the copy writes inside the usable buffers (offset < buf)
InBuffers(rs, m) == [a \in {a \in DOMAIN m : a[2] < rs[a[1]].buf} |-> m[a]]

\* arena_realloc(arena, p, old_size, new_size) on a live view p of old_size bytes.
\* A copy past the end of a mapping is undefined behaviour; the outcomes the
\* build can produce are: the stray bytes land in no region header, the
\* access faults (the process stops), or they overwrite the header of the
\* region mapped right after the destination. The overflow is at most
\* 8191 - 8152 = 39 bytes (a block of 8153..8191 bytes copied into a fresh
\* 8192-byte mapping), so it stays inside that header (see CorruptedHeaders;
\* garbage addresses fault on use and are covered by the crash outcome).
\* Source bytes past the source's buffer are copied as ForeignByte; those
\* landing inside the destination's buffer stay there.
Realloc ==
    /\ ~aborted /\ ops < limit
    /\ \E v \in views, ns \in alSizes :
        LET p == <<v.rid, v.off>>
            n == v.len
            grow == ~(ns < n)
        IN
        IF grow /\ AllocHangs(ns) THEN
            /\ aborted' = TRUE
            /\ last' = [NoLast EXCEPT !.op = "hang", !.size = ns]
            /\ ops' = ops + 1
            /\ UNCHANGED <<limit, inSizes, alSizes, initCap, regions, head, tail, unmaps, views, mem, allocSum, destroys, since>>
        ELSE
        LET r == arena_realloc(p, n, ns)
            mFull == IF grow THEN CopyBytes(mem, r.regions, p, r.ptr, n) ELSE mem
            m2 == InBuffers(r.regions, mFull)
            oob == grow /\ CopyOutOfBounds(r.regions, p, r.ptr, n)
            u2 == [i \in DOMAIN r.regions |-> IF i \in DOMAIN unmaps THEN unmaps[i] ELSE 0]
            live == LiveIds(r.regions, u2)
            Done(rs2) ==
                /\ regions' = rs2
                /\ tail' = r.tail
                /\ unmaps' = u2
                /\ views' = IF grow THEN views \cup {ViewOf(r.ptr, ns)} ELSE views
                /\ mem' = m2
                /\ last' = [NoLast EXCEPT !.op = IF grow THEN "realloc_grow" ELSE "realloc_shrink",
                              !.size = ns, !.served = r.ptr[1], !.appended = r.appended,
                              !.p = p, !.ret = r.ptr,
                              !.copyOk = SameBytes(mem, r.regions, p, mFull, r.ptr, n)]
                /\ allocSum' = IF grow THEN allocSum + ns ELSE allocSum
                /\ ops' = ops + 1
                /\ since' = Log(since, "realloc", ns)
                /\ UNCHANGED <<limit, inSizes, alSizes, initCap, head, destroys, aborted>>
        IN
        \/ Done(r.regions)
        \/ /\ oob
           /\ \/ /\ aborted' = TRUE
                 /\ last' = [NoLast EXCEPT !.op = "crash", !.size = ns]
                 /\ ops' = ops + 1
                 /\ UNCHANGED <<limit, inSizes, alSizes, initCap, regions, head, tail, unmaps, views, mem, allocSum, destroys, since>>
              \/ /\ DstOverflow(r.regions, r.ptr, n) > 0
                 /\ \E victim \in live \ {r.ptr[1]} :
                    \E h2 \in CorruptedHeaders(r.regions[victim],
                                               DstOverflow(r.regions, r.ptr, n),
                                               r.regions, live) :
                        Done([r.regions EXCEPT ![victim] = h2])

\* The caller stores a byte through a live view
Write ==
    /\ ~aborted /\ ops < limit
    /\ \E v \in views, val \in Vals :
       \E i \in 0..(Min(WriteSpan, v.len) - 1) :
        /\ mem' = [a \in DOMAIN mem \cup {<<v.rid, v.off + i>>} |->
                      IF a = <<v.rid, v.off + i>> THEN val ELSE mem[a]]
        /\ last' = [NoLast EXCEPT !.op = "write"]
        /\ ops' = ops + 1
        /\ since' = Log(since, "write", 0)
        /\ UNCHANGED <<limit, inSizes, alSizes, initCap, regions, head, tail, unmaps, views, allocSum, destroys, aborted>>

\* arena_reset: count = 0, remaining = capacity for every region of the chain
arena_reset(rs, h) ==
    LET ch == ChainFrom(rs, h)
        ids == {ch[k] : k \in 1..Len(ch)}
    IN [i \in DOMAIN rs |-> IF i \in ids
                            THEN [rs[i] EXCEPT !.count = 0, !.remaining = rs[i].capacity]
                            ELSE rs[i]]

\* arena_reset on an acyclic chain
ResetDone ==
    /\ regions' = arena_reset(regions, head)
    /\ views' = {}
    /\ last' = [NoLast EXCEPT !.op = "reset"]
    /\ ops' = ops + 1
    /\ since' = Log(since, "reset", 0)
    /\ UNCHANGED <<limit, inSizes, alSizes, initCap, head, tail, unmaps, mem, allocSum, destroys, aborted>>

Reset ==
    /\ ~aborted /\ ops < limit
    /\ IF Cyclic(regions, head) THEN
          \* the walk never reaches NULL
          /\ aborted' = TRUE
          /\ last' = [NoLast EXCEPT !.op = "hang"]
          /\ ops' = ops + 1
          /\ UNCHANGED <<limit, inSizes, alSizes, initCap, regions, head, tail, unmaps, views, mem, allocSum, destroys, since>>
       ELSE ResetDone


\* arena_destroy: arena__free__region (munmap) on every region of the chain,
\* then head = tail = NULL
arena_destroy(u, rs, h) ==
    LET ch == ChainFrom(rs, h)
        ids == {ch[k] : k \in 1..Len(ch)}
    IN [i \in DOMAIN u |-> IF i \in ids THEN u[i] + 1 ELSE u[i]]

\* On a cyclic chain arena_destroy unmaps every region met once, then reads
\* curr->next of a region it already unmapped: segmentation fault
DestroyFault ==
    /\ ~aborted /\ ops < limit
    /\ Cyclic(regions, head)
    /\ unmaps' = arena_destroy(unmaps, regions, head)
    /\ aborted' = TRUE
    /\ last' = [NoLast EXCEPT !.op = "crash"]
    /\ ops' = ops + 1
    /\ UNCHANGED <<limit, inSizes, alSizes, initCap, regions, head, tail, views, mem, allocSum, destroys, since>>

DestroyDone ==
    /\ ~aborted /\ ops < limit
    /\ ~Cyclic(regions, head)
    /\ unmaps' = arena_destroy(unmaps, regions, head)
    /\ head' = 0
    /\ tail' = 0
    /\ views' = {}
    /\ last' = [NoLast EXCEPT !.op = "destroy"]
    /\ destroys' = destroys + 1
    /\ ops' = ops + 1
    /\ since' = Log(since, "destroy", 0)
    /\ UNCHANGED <<limit, inSizes, alSizes, initCap, regions, mem, allocSum, aborted>>

Destroy == DestroyDone \/ DestroyFault

Next == InitArena \/ Alloc \/ Realloc \/ Write \/ Reset \/ Destroy

Spec == Init /\ [][Next]_vars

\* The allocator driven through its API only, without the caller storing
\* bytes: Write changes nothing but byte contents, which no region header,
\* head or tail depends on
NextApi == InitArena \/ Alloc \/ Realloc \/ Reset \/ Destroy

InitApi == InitWith(MaxOpsApi, InitSizes, AllocSizes)

InitHeap == InitWith(MaxOpsHeap, InitSizes, AllocSizes)

SpecHeap == InitHeap /\ [][NextApi]_vars

SpecApi == InitApi /\ [][NextApi]_vars

-----------------------------------------------------------------------------
(* Properties *)

ChainIds == {Chain[k] : k \in 1..Len(Chain)}

\* C1: every view returned by alloc since the last init/reset lies within its
\* region's usable buffer (off + len <= capacity) and no two such views overlap.
C1_ViewsDisjoint ==
    /\ \A v \in views : v.off + v.len <= regions[v.rid].capacity
    /\ \A v, w \in views :
          v # w => (v.rid # w.rid \/ v.off + v.len <= w.off \/ w.off + w.len <= v.off)

\* C2: the region appended by alloc (which serves the request) has
\* capacity >= the requested size.
C2_AppendedFits ==
    (last.op \in {"alloc", "realloc_grow"} /\ last.appended)
        => regions[last.served].capacity >= last.size

\* C3: every region of the chain has count <= capacity and
\* remaining = capacity - count.
C3_RegionAccounting ==
    \A r \in ChainIds :
        /\ 0 <= regions[r].count
        /\ regions[r].count <= regions[r].capacity
        /\ regions[r].remaining = regions[r].capacity - regions[r].count

\* C4: while the sizes of the alloc calls since init sum to at most the
\* initial region's capacity, the chain keeps its single region and no
\* mapping is made after the one of init.
C4_NoGrowthWithinCapacity ==
    (head # 0 /\ allocSum <= regions[head].capacity)
        => (Len(Chain) = 1 /\ NMaps = head)

C4_Witness ==
    /\ head # 0 /\ allocSum = regions[head].capacity
    /\ last.op = "alloc" /\ Len(Chain) = 1

\* C5: an alloc of the initial region's capacity (as created by init) right
\* after reset is served by the head region without appending a region.
C5_AllocAfterReset ==
    (last.op = "alloc" /\ last.afterReset /\ last.size = initCap)
        => (~last.appended /\ last.served = head)

\* C6: realloc with new_size < old_size returns old_ptr and changes no region
\* (count, remaining, next) nor head and tail.
C6_ShrinkIsNoOp ==
    [][last'.op = "realloc_shrink"
         => (last'.ret = last'.p /\ regions' = regions /\ head' = head /\ tail' = tail)]_vars

C6_Witness == last.op = "realloc_shrink"

\* C7: realloc with new_size >= old_size returns a view whose first old_size
\* bytes equal the content of old_ptr just before the call.
C7_ReallocCopies ==
    last.op = "realloc_grow" => last.copyOk

\* C8: after destroy, head and tail are NULL and every mapping was released
\* exactly once; a second destroy without init is fatal.
C8_DestroyOnce ==
    /\ last.op = "destroy" => (/\ head = 0 /\ tail = 0
                               /\ \A i \in DOMAIN unmaps : unmaps[i] = 1)
    /\ destroys >= 2 => aborted

\* C9 (as stated): init(arena, 1) yields one region with capacity
\* >= 2 * 4096 - header size.
C9_InitOneCapacity ==
    (last.op = "init" /\ last.size = 1)
        => (Len(Chain) = 1 /\ regions[head].capacity >= 2 * PageSize - HeaderSize)

\* C9 (amended): init(arena, 1) yields one region of capacity
\* PageSize - header size (4056); alloc(100) then alloc(50) are served by it
\* and leave count = 150.
C9_InitOneAmended ==
    /\ (last.op = "init" /\ last.size = 1)
          => (Len(Chain) = 1 /\ regions[head].capacity = PageSize - HeaderSize)
    /\ since = C9_Scenario
          => (Len(Chain) = 1 /\ regions[head].count = 150
              /\ regions[head].remaining = PageSize - HeaderSize - 150)

C9_Witness == since = C9_Scenario

====
